---- MODULE Spec2Model ----
(***************************************************************************)
(* Model of dipy/reconst/utils.py: probabilistic_least_squares (the        *)
(* estimator) and sample_coef_posterior (the sampler).                     *)
(*                                                                         *)
(* Numbers are IEEE-754 doubles in the source.  The model keeps the        *)
(* special values (+inf, -inf, NaN) and their propagation and replaces     *)
(* the finite values by exact rationals: rounding is abstracted away,      *)
(* signed zeros are identified.  A value is a pair <<n, d>> in lowest      *)
(* terms with d >= 0; d = 0 holds the special values: <<1,0>> = +inf,      *)
(* <<-1,0>> = -inf, <<0,0>> = NaN.                                         *)
(*                                                                         *)
(* A numpy array is a record [shape |-> <<...>>, data |-> <<...>>] with    *)
(* the data in row-major (C) order, so reshape, squeeze and broadcasting   *)
(* are modelled by what numpy does to shape and data.                      *)
(***************************************************************************)
EXTENDS Integers, Sequences, FiniteSets, TLC

----------------------------------------------------------------------------
(* Extended rational arithmetic (IEEE-754 special values kept).            *)

Sgn(n) == IF n > 0 THEN 1 ELSE IF n < 0 THEN -1 ELSE 0

Abs(n) == IF n < 0 THEN -n ELSE n

RECURSIVE GCD(_, _)
GCD(a, b) == IF b = 0 THEN a ELSE GCD(b, a % b)

Q(n, d) ==
    IF d = 0 THEN <<Sgn(n), 0>>
    ELSE IF d = 1 THEN <<n, 1>>
    ELSE LET g == GCD(Abs(n), Abs(d))
         IN  <<(Sgn(d) * n) \div g, Abs(d) \div g>>

QI(n) == <<n, 1>>

Zero == <<0, 1>>

One == <<1, 1>>

Inf == <<1, 0>>

NaN == <<0, 0>>

IsNaN(a) == a = NaN

IsFinite(a) == a[2] # 0

QNeg(a) == <<-a[1], a[2]>>

QAdd(a, b) ==
    IF IsNaN(a) \/ IsNaN(b) THEN NaN
    ELSE IF a[2] = 0 /\ b[2] = 0 THEN (IF a = b THEN a ELSE NaN)
    ELSE IF a[2] = 0 THEN a
    ELSE IF b[2] = 0 THEN b
    ELSE Q(a[1] * b[2] + b[1] * a[2], a[2] * b[2])

QSub(a, b) == QAdd(a, QNeg(b))

QMul(a, b) == Q(a[1] * b[1], a[2] * b[2])

QRecip(a) == IF a[1] < 0 THEN <<-a[2], -a[1]>> ELSE <<a[2], a[1]>>

QDiv(a, b) == QMul(a, QRecip(b))

QAbs(a) == <<Abs(a[1]), a[2]>>

\* a > b for a, b >= 0 (absolute values); false when either is NaN.
QAbsGt(a, b) ==
    /\ ~IsNaN(a) /\ ~IsNaN(b)
    /\ a # b
    /\ IF a[2] = 0 THEN TRUE
       ELSE IF b[2] = 0 THEN FALSE
       ELSE Abs(a[1]) * b[2] > Abs(b[1]) * a[2]

\* a >= 0 and a is a number (false for NaN and for negative values).
QNonNeg(a) == ~IsNaN(a) /\ a[1] >= 0

\* The integer square root of a perfect square.
ISqrt(n) == CHOOSE r \in 0..n : r * r = n

\* sqrt of a non-negative value whose root is rational (sqrt(inf) = inf).
QSqrt(a) == <<ISqrt(a[1]), ISqrt(a[2])>>

----------------------------------------------------------------------------
(* numpy arrays.                                                           *)

\* Forces a lazily defined sequence into a tuple.
Force(s) == s \o <<>>

RECURSIVE Prod(_)
Prod(s) == IF s = <<>> THEN 1 ELSE Head(s) * Prod(Tail(s))

RECURSIVE SumQ(_)
SumQ(s) == IF s = <<>> THEN Zero ELSE QAdd(Head(s), SumQ(Tail(s)))

NdSize(a) == Len(a.data)

Mk0(x) == [shape |-> <<>>, data |-> <<x>>]

Mk1(n, f) == [shape |-> <<n>>, data |-> Force([t \in 1..n |-> f[t]])]

Mk2(r, c, f) ==
    [shape |-> <<r, c>>,
     data  |-> Force([t \in 1..(r * c) |-> f[((t - 1) \div c) + 1, ((t - 1) % c) + 1]])]

Mk3(b, r, c, f) ==
    [shape |-> <<b, r, c>>,
     data  |-> Force([t \in 1..(b * r * c) |->
                  f[((t - 1) \div (r * c)) + 1,
                    (((t - 1) \div c) % r) + 1,
                    ((t - 1) % c) + 1]])]

At1(a, i) == a.data[i]

At2(a, i, j) == a.data[(i - 1) * a.shape[2] + j]

At3(a, u, i, j) == a.data[((u - 1) * a.shape[2] + (i - 1)) * a.shape[3] + j]

\* a[u, :, :] of a 3-d array.
Slice3(a, u) == Mk2(a.shape[2], a.shape[3], [i \in 1..a.shape[2], j \in 1..a.shape[3] |-> At3(a, u, i, j)])

\* np.swapaxes(a, -1, -2) of a 2-d array.
Swapaxes(a) == Mk2(a.shape[2], a.shape[1], [i \in 1..a.shape[2], j \in 1..a.shape[1] |-> At2(a, j, i)])

\* np.eye(n)
Eye(n) == Mk2(n, n, [i \in 1..n, j \in 1..n |-> IF i = j THEN One ELSE Zero])

\* np.zeros(shape); a negative dimension is a ValueError.
Zeros(shape) ==
    IF \E t \in 1..Len(shape) : shape[t] < 0
    THEN [err |-> "ValueError"]
    ELSE [err |-> "none",
          arr |-> [shape |-> shape, data |-> Force([t \in 1..Prod(shape) |-> Zero])]]

\* a.reshape(shape): the same data; the sizes must agree.
Reshape(a, shape) ==
    IF Prod(shape) # NdSize(a)
    THEN [err |-> "ValueError"]
    ELSE [err |-> "none", arr |-> [shape |-> shape, data |-> a.data]]

\* np.squeeze(a): every axis of size one is removed.
Squeeze(a) ==
    [shape |-> SelectSeq(a.shape, LAMBDA n : n # 1), data |-> a.data]

\* np.atleast_2d(a)
AtLeast2d(a) ==
    IF Len(a.shape) >= 2 THEN a
    ELSE IF Len(a.shape) = 1 THEN [shape |-> <<1>> \o a.shape, data |-> a.data]
    ELSE [shape |-> <<1, 1>>, data |-> a.data]

Max(a, b) == IF a > b THEN a ELSE b

\* The axis of length n that numpy conceptually prepends ones to.
PadShape(s, n) == [t \in 1..n |-> IF t <= n - Len(s) THEN 1 ELSE s[t - (n - Len(s))]]

\* Flat (1-based) position in an array of padded shape ps of the element that
\* broadcasting pairs with the element at flat position t of shape os.
RECURSIVE BIndex(_, _, _, _)
BIndex(t0, os, ps, ax) ==
    \* t0 is 0-based; returns the 0-based position, folding axes from the last.
    IF ax = 0 THEN 0
    ELSE LET i    == t0 % os[ax]
             rest == BIndex(t0 \div os[ax], os, ps, ax - 1)
             ii   == IF ps[ax] = 1 THEN 0 ELSE i
         IN  rest * ps[ax] + ii

\* The elementwise operations: "+", "-", "/".
ApplyOp(op, x, z) ==
    IF op = "+" THEN QAdd(x, z) ELSE IF op = "-" THEN QSub(x, z) ELSE QDiv(x, z)

\* Elementwise binary operation with numpy broadcasting.
NpBinary(a, b, op) ==
    LET n  == Max(Len(a.shape), Len(b.shape))
        pa == PadShape(a.shape, n)
        pb == PadShape(b.shape, n)
        ok == \A t \in 1..n : pa[t] = pb[t] \/ pa[t] = 1 \/ pb[t] = 1
        os == [t \in 1..n |-> IF pa[t] = 1 THEN pb[t] ELSE pa[t]]
    IN  IF ~ok THEN [err |-> "ValueError"]
        ELSE IF a.shape = b.shape
        THEN [err |-> "none",
              arr |-> [shape |-> a.shape,
                       data  |-> Force([t \in 1..NdSize(a) |-> ApplyOp(op, a.data[t], b.data[t])])]]
        ELSE [err |-> "none",
              arr |-> [shape |-> Force(os),
                       data  |-> Force([t \in 1..Prod(os) |->
                                   ApplyOp(op, a.data[BIndex(t - 1, os, pa, n) + 1],
                                          b.data[BIndex(t - 1, os, pb, n) + 1])])]]

\* x ** 2, elementwise.
Square(a) == [shape |-> a.shape, data |-> Force([t \in 1..NdSize(a) |-> QMul(a.data[t], a.data[t])])]

\* np.sum(a) with the axis forgotten: every unit gets the sum over all units.
SumAllAxes(a) ==
    IF Len(a.shape) = 1 THEN Mk0(SumQ(a.data))
    ELSE Mk1(a.shape[1], [u \in 1..a.shape[1] |-> SumQ(a.data)])

\* np.sum(a, axis=-1) of a 1-d or 2-d array.
SumLast(a) ==
    IF Len(a.shape) = 1 THEN Mk0(SumQ(a.data))
    ELSE Mk1(a.shape[1], [u \in 1..a.shape[1] |-> SumQ([j \in 1..a.shape[2] |-> At2(a, u, j)] \o <<>>)])

\* np.sum(a, axis=(-1, -2)) of a 2-d array.
SumLastTwo(a) == Mk0(SumQ(a.data))

----------------------------------------------------------------------------
(* The einsum contractions the estimator uses.                             *)

\* np.einsum('...ki, ...kj->...ij', a, b) of 2-d arrays: a^T b.
EinsumGram(a, b) ==
    Mk2(a.shape[2], b.shape[2],
        [i \in 1..a.shape[2], j \in 1..b.shape[2] |-> SumQ([k \in 1..a.shape[1] |-> QMul(At2(a, k, i), At2(b, k, j))] \o <<>>)])

\* np.einsum('...ij, ...j->...i', m, y): m is 2-d; y is a vector or, with the
\* ellipsis standing for the batch axis, a batch of vectors.
EinsumMatVec(m, y) ==
    IF Len(y.shape) = 1
    THEN Mk1(m.shape[1],
             [i \in 1..m.shape[1] |-> SumQ([j \in 1..m.shape[2] |-> QMul(At2(m, i, j), At1(y, j))] \o <<>>)])
    ELSE Mk2(y.shape[1], m.shape[1],
             [u \in 1..y.shape[1], i \in 1..m.shape[1] |-> SumQ([j \in 1..m.shape[2] |-> QMul(At2(m, i, j), At2(y, u, j))] \o <<>>)])

\* np.einsum('...ik, ...kj->...ij', a, b) of 2-d arrays: a b.
EinsumMatMul(a, b) ==
    Mk2(a.shape[1], b.shape[2],
        [i \in 1..a.shape[1], j \in 1..b.shape[2] |-> SumQ([k \in 1..a.shape[2] |-> QMul(At2(a, i, k), At2(b, k, j))] \o <<>>)])

----------------------------------------------------------------------------
(* np.linalg.solve(a, b): LAPACK gesv, an LU factorization with partial    *)
(* pivoting followed by the two triangular solves.  The rows of the        *)
(* augmented matrix [a | b] are eliminated in place.  skipZero is the one  *)
(* thing the BLAS build decides: the reference kernels skip the update by  *)
(* a multiplier that is exactly zero (IF (B(K,J).NE.ZERO)), the optimized  *)
(* kernels multiply, and 0 * inf is NaN.                                   *)

\* idamax: the first row of c..k holding the largest |m[r][c]|.
RECURSIVE PivotRow(_, _, _, _)
PivotRow(m, c, r, best) ==
    IF r > Len(m) THEN best
    ELSE PivotRow(m, c, r + 1,
                  IF QAbsGt(QAbs(m[r][c]), QAbs(m[best][c])) THEN r ELSE best)

SwapRows(m, i, j) ==
    [r \in 1..Len(m) |-> IF r = i THEN m[j] ELSE IF r = j THEN m[i] ELSE m[r]]

\* Elimination of column c: returns the rows after the step.
EliminateColumn(m, c, skipZero) ==
    LET piv == m[c][c]
    IN  [r \in 1..Len(m) |->
            IF r <= c THEN m[r]
            ELSE LET l == QMul(m[r][c], QRecip(piv))
                 IN  Force([j \in 1..Len(m[r]) |->
                        IF j < c THEN m[r][j]
                        ELSE IF j = c THEN l
                        ELSE IF skipZero /\ m[c][j] = Zero THEN m[r][j]
                        ELSE QSub(m[r][j], QMul(l, m[c][j]))])]

\* The factorization that never reports a zero pivot and divides by it.
RECURSIVE FactorUnchecked(_, _, _)
FactorUnchecked(m, c, skipZero) ==
    IF c > Len(m) THEN [singular |-> FALSE, rows |-> m]
    ELSE LET p  == PivotRow(m, c, c, c)
             ms == Force(SwapRows(m, c, p))
         IN  FactorUnchecked(Force(EliminateColumn(ms, c, skipZero)), c + 1, skipZero)

\* The factorization and the forward substitution; "singular" when a pivot
\* is exactly zero (LAPACK's info > 0, numpy's LinAlgError).
RECURSIVE Factor(_, _, _)
Factor(m, c, skipZero) ==
    IF c > Len(m) THEN [singular |-> FALSE, rows |-> m]
    ELSE LET p  == PivotRow(m, c, c, c)
             ms == Force(SwapRows(m, c, p))
         IN  IF ms[c][c] = Zero THEN [singular |-> TRUE, rows |-> ms]
             ELSE Factor(Force(EliminateColumn(ms, c, skipZero)), c + 1, skipZero)

\* The back substitution of one right-hand-side column b (trsm, upper,
\* non-unit), from the last unknown to the first.
RECURSIVE BackSubstitute(_, _, _, _)
BackSubstitute(u, b, kk, skipZero) ==
    IF kk = 0 THEN b
    ELSE IF skipZero /\ b[kk] = Zero THEN BackSubstitute(u, b, kk - 1, skipZero)
    ELSE LET x  == QDiv(b[kk], u[kk][kk])
             b2 == [i \in 1..Len(b) |->
                       IF i < kk THEN QSub(b[i], QMul(x, u[i][kk]))
                       ELSE IF i = kk THEN x
                       ELSE b[i]]
         IN  BackSubstitute(u, Force(b2), kk - 1, skipZero)

Solve(a, b, skipZero) ==
    LET k   == a.shape[1]
        m   == b.shape[2]
        aug == Force([r \in 1..k |->
                   Force([j \in 1..(k + m) |->
                       IF j <= k THEN At2(a, r, j) ELSE At2(b, r, j - k)])])
        f   == Factor(aug, 1, skipZero)
        col(j) == BackSubstitute(f.rows, Force([r \in 1..k |-> f.rows[r][k + j]]), k, skipZero)
        cols == Force([j \in 1..m |-> col(j)])
    IN  IF f.singular THEN [err |-> "LinAlgError"]
        ELSE [err |-> "none", arr |-> Mk2(k, m, [i \in 1..k, j \in 1..m |-> cols[j][i]])]

----------------------------------------------------------------------------
(* probabilistic_least_squares                                             *)

NoReg == [shape |-> <<0>>, data |-> <<>>]

\* The Gram matrix with an identity added when no regularization is given.
UnscaledPrecisionRidge(design_matrix, regularization_matrix) ==
    IF regularization_matrix = NoReg
    THEN NpBinary(EinsumGram(design_matrix, design_matrix),
                  Eye(design_matrix.shape[2]), "+").arr
    ELSE NpBinary(EinsumGram(design_matrix, design_matrix), regularization_matrix, "+").arr

UnscaledPrecision(design_matrix, regularization_matrix) ==
    IF regularization_matrix = NoReg
    THEN EinsumGram(design_matrix, design_matrix)
    ELSE NpBinary(EinsumGram(design_matrix, design_matrix), regularization_matrix, "+").arr

\* sum(residuals ** 2, axis=-1) / sum(residual_matrix ** 2, axis=(-1, -2))
ResidualVariance(residuals, residual_matrix) ==
    NpBinary(SumLast(Square(residuals)), SumLastTwo(Square(residual_matrix)), "/").arr

\* unscaled_posterior_precision / residual_variance, then reshape and squeeze.
PosteriorPrecision(unscaled, residual_variance, n_voxels, n_coefs) ==
    LET q == NpBinary(unscaled, residual_variance, "/")
    IN  IF q.err # "none" THEN q
        ELSE LET r == Reshape(q.arr, <<n_voxels, n_coefs, n_coefs>>)
             IN  IF r.err # "none" THEN r
                 ELSE [err |-> "none", arr |-> Squeeze(r.arr)]

NoArr == [shape |-> <<0>>, data |-> <<>>]

Failure(e) == [err |-> e, mean |-> NoArr, residual_variance |-> NoArr, precision |-> NoArr]

probabilistic_least_squares(design_matrix, y, regularization_matrix, return_posterior_precision, skipZero) ==
    LET unscaled  == UnscaledPrecision(design_matrix, regularization_matrix)
        pinv      == Solve(unscaled, Swapaxes(design_matrix), skipZero)
        pseudoInv == pinv.arr
        mean      == EinsumMatVec(pseudoInv, y)
        smoother  == EinsumMatMul(design_matrix, pseudoInv)
        residual_matrix == NpBinary(Eye(smoother.shape[2]), smoother, "-").arr
        residuals == NpBinary(y, EinsumMatVec(design_matrix, mean), "-").arr
        residual_variance == ResidualVariance(residuals, residual_matrix)
        mean2d    == AtLeast2d(mean)
        prec      == PosteriorPrecision(unscaled, residual_variance,
                                        mean2d.shape[1], mean2d.shape[2])
    IN  IF pinv.err # "none" THEN Failure(pinv.err)
        ELSE IF ~return_posterior_precision
        THEN [err |-> "none", mean |-> mean,
              residual_variance |-> residual_variance, precision |-> NoArr]
        ELSE IF prec.err # "none" THEN Failure(prec.err)
        ELSE [err |-> "none", mean |-> Squeeze(mean2d),
              residual_variance |-> residual_variance, precision |-> prec.arr]

----------------------------------------------------------------------------
(* np.linalg.cholesky(a): LAPACK potrf on the lower triangle; the upper    *)
(* triangle of the result is zero.  A pivot that is not positive (or is    *)
(* NaN) is numpy's LinAlgError.                                            *)

\* The pivot of column j, given the columns before j.
CholeskyPivot(a, l, j) ==
    QSub(At2(a, j, j), SumQ([t \in 1..(j - 1) |-> QMul(l[j][t], l[j][t])] \o <<>>))

\* Column j of the factor written into l (a sequence of rows).
CholeskyColumn(a, l, j) ==
    LET ljj == QSqrt(CholeskyPivot(a, l, j))
    IN  [r \in 1..Len(l) |->
            Force([c \in 1..Len(l) |->
                IF c # j THEN l[r][c]
                ELSE IF r < j THEN Zero
                ELSE IF r = j THEN ljj
                ELSE QDiv(QSub(At2(a, r, j),
                               SumQ([t \in 1..(j - 1) |-> QMul(l[r][t], l[j][t])] \o <<>>)),
                          ljj)])]

RECURSIVE CholeskyFrom(_, _, _)
CholeskyFrom(a, l, j) ==
    IF j > Len(l) THEN [err |-> "none", rows |-> l]
    ELSE LET ajj == CholeskyPivot(a, l, j)
         IN  IF IsNaN(ajj) \/ ajj[1] <= 0 THEN [err |-> "LinAlgError"]
             ELSE CholeskyFrom(a, Force(CholeskyColumn(a, l, j)), j + 1)

Cholesky(a) ==
    LET k == a.shape[1]
        f == CholeskyFrom(a, Force([r \in 1..k |-> Force([c \in 1..k |-> Zero])]), 1)
    IN  IF f.err # "none" THEN [err |-> f.err]
        ELSE [err |-> "none", arr |-> Mk2(k, k, [r \in 1..k, c \in 1..k |-> f.rows[r][c]])]

----------------------------------------------------------------------------
(* sample_coef_posterior, one voxel of the loop.                           *)

\* mean[i, :, None]: row i of the 2-d mean as a column.
MeanColumn(mean2d, i) == Mk2(mean2d.shape[2], 1, [r \in 1..mean2d.shape[2], c \in 1..1 |-> At2(mean2d, i, r)])

\* np.linalg.solve(L, standard_normal_samples): what is added to the mean.
SampleTransform(L, standard_normal_samples, skipZero) ==
    Solve(L, standard_normal_samples, skipZero)

\* samples[i, :, :] = block
SetVoxel(samples, i, block) ==
    Mk3(samples.shape[1], samples.shape[2], samples.shape[3],
        [u \in 1..samples.shape[1], r \in 1..samples.shape[2], c \in 1..samples.shape[3] |-> IF u = i THEN At2(block, r, c) ELSE At3(samples, u, r, c)])

\* The array sample_coef_posterior returns.
SamplerOutput(samples) == Squeeze(samples)

\* The BLAS build's choices that can show: the kernels differ only on
\* operands that are not finite.
SkipChoices(a) == IF \E t \in 1..NdSize(a) : ~IsFinite(a.data[t]) THEN BOOLEAN ELSE {FALSE}

----------------------------------------------------------------------------
(* The inputs the calls are made with.                                     *)

MaxObs == 3

MaxBatch == 2

MaxSamples == 2

CoefCounts == {1, 2}

XVals == {0, 1, 2}

YVals == {0, 1}

RECURSIVE Pow(_, _)
Pow(x, e) == IF e = 0 THEN 1 ELSE x * Pow(x, e - 1)

NonDecreasing(v) == \A t \in 1..(Len(v) - 1) : v[t] <= v[t + 1]

\* Polynomial-regression designs, as in the tests: row r is (1, x_r, ...)
\* for the abscissae xs, taken in non-decreasing order.
DesignOf(xs, k) == Mk2(Len(xs), k, [r \in 1..(Len(xs)), j \in 1..k |-> QI(Pow(xs[r], j - 1))])

Designs ==
    { DesignOf(xs, k) :
        xs \in { v \in UNION { [1..n -> XVals] : n \in 1..MaxObs } : NonDecreasing(v) },
        k \in CoefCounts }

VecOf(v) == [shape |-> <<Len(v)>>, data |-> [t \in 1..Len(v) |-> QI(v[t])]]

\* The vectors the units of a batch are taken from: zero but for a step in
\* the last two observations.
BatchUnits(n) ==
    { v \in [1..n -> YVals] : NonDecreasing(v) /\ \A t \in 1..(n - 2) : v[t] = 0 }

BatchOf(rows, n) ==
    Mk2(Len(rows), n, [u \in 1..(Len(rows)), t \in 1..n |-> QI(rows[u][t])])

\* A single observation vector, or a batch of them.
Observations(n) ==
    { VecOf(v) : v \in [1..n -> YVals] }
    \cup UNION { { BatchOf(rows, n) : rows \in [1..b -> BatchUnits(n)] } : b \in 1..MaxBatch }

\* The weights a diagonal regularization matrix is built from.
RegWeights == {Zero, One, Inf}

DiagOf(w) == Mk2(Len(w), Len(w), [i \in 1..(Len(w)), j \in 1..(Len(w)) |-> IF i = j THEN w[i] ELSE Zero])

Regularizations(k) == {NoReg} \cup { DiagOf(w) : w \in [1..k -> RegWeights] }

\* Precisions with a rational Cholesky factor: l l^T for a lower-triangular
\* l with a positive integer diagonal; and matrices that are not
\* positive-definite.
MaxL == 2

FactorOf(k, dg, off) ==
    Mk2(k, k, [r \in 1..k, c \in 1..k |-> IF r = c THEN QI(dg[r]) ELSE IF r > c THEN QI(off) ELSE Zero])

PositiveDefinite(k) ==
    { LET l == FactorOf(k, dg, off) IN EinsumMatMul(l, Swapaxes(l)) :
        dg \in [1..k -> 1..MaxL], off \in (IF k = 1 THEN {0} ELSE {0, 1}) }

NotPositiveDefinite(k) ==
    IF k = 1 THEN { Mk2(1, 1, [r \in 1..1, c \in 1..1 |-> QI(-1)]) }
    ELSE { Mk2(2, 2, [r \in 1..2, c \in 1..2 |-> IF r = c THEN One ELSE QI(2)]),
           Mk2(2, 2, [r \in 1..2, c \in 1..2 |-> IF r = 1 /\ c = 1 THEN Zero ELSE IF r = c THEN One ELSE Zero]) }

UnitPrecisions(k) == PositiveDefinite(k) \cup NotPositiveDefinite(k)

\* The precision of a single unit (k x k) or of a batch (b x k x k).
StackOf(ps, k) == Mk3(Len(ps), k, k, [u \in 1..(Len(ps)), r \in 1..k, c \in 1..k |-> At2(ps[u], r, c)])

MeanBases == {0, 1}

\* Means with pairwise different entries: base, base + 1, ...
MeanOf(shape, base) ==
    [shape |-> shape, data |-> [t \in 1..Prod(shape) |-> QI(base + t - 1)]]

\* (mean, precision) pairs: a single unit, or a batch of one or more.
SamplerInputs ==
    UNION { { <<MeanOf(<<k>>, m), p>> : m \in MeanBases, p \in UnitPrecisions(k) }
            \cup UNION { { <<MeanOf(<<b, k>>, m), StackOf(ps, k)>> :
                             m \in MeanBases, ps \in [1..b -> UnitPrecisions(k)] } :
                         b \in 1..MaxBatch }
            : k \in CoefCounts }

SampleCounts == (-1)..MaxSamples

\* The values a standard-normal draw takes in the model.
ZVals == {-1, 1}

StandardNormals(k, n) ==
    { [shape |-> <<k, n>>, data |-> [t \in 1..(k * n) |-> QI(v[t])]] : v \in [1..(k * n) -> ZVals] }

----------------------------------------------------------------------------
(* The state.  Estimator: the arguments of the call and what it returned.  *)
(* Sampler: the arguments, the locals of the function (mean2d, precision3d,*)
(* samples, the loop index i), the number of normal variates taken from    *)
(* the random source (drawn) and the matrices drawn so far (zs).           *)

VARIABLES design_matrix, y, regularization_matrix, return_posterior_precision, result,
          mean_arg, precision_arg, n_samples, mean2d, precision3d, samples, i,
          drawn, zs, pc, out

varsEst == <<design_matrix, y, regularization_matrix, return_posterior_precision, result>>

varsSamp == <<mean_arg, precision_arg, n_samples, mean2d, precision3d, samples, i,
              drawn, zs, pc, out>>

vars == <<varsEst, varsSamp>>

NotCalled == [err |-> "not called", mean |-> NoArr, residual_variance |-> NoArr, precision |-> NoArr]

EstimatorIdle ==
    /\ design_matrix = NoArr
    /\ y = NoArr
    /\ regularization_matrix = NoReg
    /\ return_posterior_precision = FALSE
    /\ result = NotCalled

EstimatorArgs ==
    /\ design_matrix \in Designs
    /\ y \in Observations(design_matrix.shape[1])
    /\ regularization_matrix \in Regularizations(design_matrix.shape[2])
    /\ return_posterior_precision \in BOOLEAN
    /\ result = NotCalled

SamplerLocalsInit ==
    /\ mean2d = NoArr
    /\ precision3d = NoArr
    /\ samples = NoArr
    /\ i = 0
    /\ drawn = 0
    /\ zs = <<>>
    /\ out = NoArr

SamplerIdle ==
    /\ mean_arg = NoArr
    /\ precision_arg = NoArr
    /\ n_samples = 0
    /\ pc = "idle"
    /\ SamplerLocalsInit

SamplerArgs ==
    /\ \E mp \in SamplerInputs : mean_arg = mp[1] /\ precision_arg = mp[2]
    /\ n_samples \in SampleCounts
    /\ pc = "start"
    /\ SamplerLocalsInit

InitEst == EstimatorArgs /\ SamplerIdle

InitSamp == EstimatorIdle /\ SamplerArgs

Init == InitEst \/ InitSamp

\* The call of probabilistic_least_squares on the arguments.
Estimate ==
    /\ design_matrix # NoArr
    /\ result = NotCalled
    /\ \E skipZero \in SkipChoices(regularization_matrix) :
          result' = probabilistic_least_squares(design_matrix, y, regularization_matrix,
                                                return_posterior_precision, skipZero)
    /\ UNCHANGED <<design_matrix, y, regularization_matrix, return_posterior_precision>>
    /\ UNCHANGED varsSamp

\* sample_coef_posterior up to the loop: atleast_2d, reshape, np.zeros.
SampleBegin ==
    /\ pc = "start"
    /\ LET m2 == AtLeast2d(mean_arg)
           p3 == Reshape(precision_arg, <<m2.shape[1], m2.shape[2], m2.shape[2]>>)
           z  == Zeros(<<m2.shape[1], m2.shape[2], n_samples>>)
       IN  IF p3.err # "none" \/ z.err # "none"
           THEN /\ pc' = "ValueError"
                /\ UNCHANGED <<mean2d, precision3d, samples>>
           ELSE /\ pc' = "loop"
                /\ mean2d' = m2
                /\ precision3d' = p3.arr
                /\ samples' = z.arr
    /\ UNCHANGED <<mean_arg, precision_arg, n_samples, i, drawn, zs, out>>
    /\ UNCHANGED varsEst

\* One iteration of the loop over voxels: the draw, the factorization, the
\* solve and the store, in the order of the code.
SampleVoxel ==
    /\ pc = "loop"
    /\ i < mean2d.shape[1]
    /\ \E standard_normal_samples \in StandardNormals(mean2d.shape[2], n_samples) :
         LET L == Cholesky(Slice3(precision3d, i + 1))
         IN  /\ drawn' = drawn + NdSize(standard_normal_samples)
             /\ zs' = Append(zs, standard_normal_samples)
             /\ IF L.err # "none"
                THEN /\ pc' = L.err
                     /\ UNCHANGED <<samples, i>>
                ELSE \E skipZero \in SkipChoices(L.arr) :
                     /\ samples' = SetVoxel(samples, i + 1,
                                      NpBinary(MeanColumn(mean2d, i + 1),
                                               SampleTransform(L.arr, standard_normal_samples,
                                                               skipZero).arr,
                                               "+").arr)
                     /\ i' = i + 1
                     /\ pc' = pc
    /\ UNCHANGED <<mean_arg, precision_arg, n_samples, mean2d, precision3d, out>>
    /\ UNCHANGED varsEst

\* After the loop: np.squeeze and the return.
SampleReturn ==
    /\ pc = "loop"
    /\ i = mean2d.shape[1]
    /\ out' = SamplerOutput(samples)
    /\ pc' = "returned"
    /\ UNCHANGED <<mean_arg, precision_arg, n_samples, mean2d, precision3d, samples, i,
                   drawn, zs>>
    /\ UNCHANGED varsEst

NextEst == Estimate

NextSamp == SampleBegin \/ SampleVoxel \/ SampleReturn

Next == NextEst \/ NextSamp

SpecEst == InitEst /\ [][NextEst]_vars

SpecSamp == InitSamp /\ [][NextSamp]_vars

Spec == Init /\ [][Next]_vars

----------------------------------------------------------------------------
(* Vocabulary of the properties.                                           *)

\* The estimator has been called and has returned or failed.
Called == design_matrix # NoArr /\ result # NotCalled

Returned == Called /\ result.err = "none"

NObs == design_matrix.shape[1]

NCoefs == design_matrix.shape[2]

\* The number of batch units of y.
NUnits == IF Len(y.shape) = 1 THEN 1 ELSE y.shape[1]

\* Unit u of y, of the returned mean and of the returned residual variance
\* (read from the row-major data, whatever axes np.squeeze removed).
UnitY(u) == [t \in 1..NObs |-> y.data[(u - 1) * NObs + t]]

UnitMean(u) == [j \in 1..NCoefs |-> result.mean.data[(u - 1) * NCoefs + j]]

UnitVariance(u) == result.residual_variance.data[u]

\* design . c for a coefficient vector c.
Predicted(d, c) ==
    [r \in 1..d.shape[1] |-> SumQ([j \in 1..d.shape[2] |-> QMul(At2(d, r, j), c[j])] \o <<>>)]

\* Full column rank, by the minors of the design (one or two columns).
FullColumnRank(d) ==
    IF d.shape[2] = 1 THEN \E r \in 1..d.shape[1] : At2(d, r, 1) # Zero
    ELSE \E r1, r2 \in 1..d.shape[1] :
            QMul(At2(d, r1, 1), At2(d, r2, 2)) # QMul(At2(d, r1, 2), At2(d, r2, 1))

\* The true coefficients the exact fits are made of.
TrueCoefs == { Q(n, d) : n \in (-2)..2, d \in 1..2 }

----------------------------------------------------------------------------
(* Estimator properties (specification SpecEst).                           *)

\* C3 - Exact fit recovery.  For a full-column-rank design with more
\* observations than coefficients and no regularization, a unit whose y is
\* exactly design . c_true gets mean = c_true and residual variance 0; the
\* call without the precision returns.
C3_ExactFitRecovery ==
    (Called /\ regularization_matrix = NoReg /\ FullColumnRank(design_matrix)
       /\ NObs > NCoefs)
    => /\ ~return_posterior_precision => Returned
       /\ Returned =>
            \A c \in [1..NCoefs -> TrueCoefs] :
               LET exact == Predicted(design_matrix, c)
               IN  \A u \in 1..NUnits :
                      UnitY(u) = exact => UnitMean(u) = c /\ UnitVariance(u) = Zero

\* C3 witness: a returned exact fit on three observations with both true
\* coefficients non-zero.
C3_Witness ==
    /\ Returned /\ regularization_matrix = NoReg /\ NObs = 3 /\ NCoefs = 2
    /\ FullColumnRank(design_matrix)
    /\ \E c \in [1..NCoefs -> TrueCoefs \ {Zero}] :
          /\ UnitY(1) = Predicted(design_matrix, c)
          /\ UnitMean(1) = c
          /\ UnitVariance(1) = Zero

\* C7 - Failure on singularity.  A rank-deficient design with no
\* regularization makes the call fail with the singular-matrix error and
\* nothing is returned, with or without the precision requested.
C7_FailureOnSingularity ==
    (Called /\ regularization_matrix = NoReg /\ ~FullColumnRank(design_matrix))
    => result = Failure("LinAlgError")

\* C7 witness: the failure with the precision requested, on a batch.
C7_Witness ==
    /\ Called /\ regularization_matrix = NoReg /\ ~FullColumnRank(design_matrix)
    /\ return_posterior_precision /\ NUnits = 2 /\ NObs = 3
    /\ result.err = "LinAlgError"

\* C9 - No cross-unit dependency.  What a batch call returns for unit u
\* (mean and residual variance) is what the single-unit call on y[u] alone
\* returns, under the same BLAS build; the batch call fails in the solve
\* exactly when the single-unit call does.
C9_NoCrossUnitDependency ==
    (Called /\ Len(y.shape) = 2 /\ result.err \in {"none", "LinAlgError"})
    => \E skipZero \in SkipChoices(regularization_matrix) :
         \A u \in 1..NUnits :
            LET single == probabilistic_least_squares(
                              design_matrix, [shape |-> <<NObs>>, data |-> UnitY(u)],
                              regularization_matrix, FALSE, skipZero)
            IN  /\ single.err = result.err
                /\ Returned =>
                     /\ result.residual_variance.shape = <<NUnits>>
                     /\ NdSize(result.mean) = NUnits * NCoefs
                     /\ UnitMean(u) = single.mean.data
                     /\ UnitVariance(u) = single.residual_variance.data[1]

\* C9 witness: a returned batch of two units with different observations,
\* different means and different residual variances.
C9_Witness ==
    /\ Returned /\ Len(y.shape) = 2 /\ NUnits = 2 /\ NObs = 3 /\ NCoefs = 2
    /\ UnitY(1) # UnitY(2)
    /\ UnitMean(1) # UnitMean(2)
    /\ UnitVariance(1) # UnitVariance(2)
    /\ IsFinite(UnitVariance(1)) /\ IsFinite(UnitVariance(2))

\* C2 - Precision consistency.  When the precision is requested and the
\* solve succeeds, the call returns, and the precision of unit u is the
\* whole unscaled precision divided by the residual variance of unit u,
\* stacked batch x coefficients x coefficients for several units and a
\* plain matrix for one (axes of size one are not held against the code).
C2_PrecisionConsistency ==
    (Called /\ return_posterior_precision /\ result.err # "LinAlgError")
    => /\ Returned
       /\ result.precision =
             Squeeze(Mk3(NUnits, NCoefs, NCoefs,
                [u \in 1..NUnits, r \in 1..NCoefs, c \in 1..NCoefs |-> QDiv(At2(UnscaledPrecision(design_matrix, regularization_matrix), r, c),
                        UnitVariance(u))]))

\* The regularization is diagonal with its one infinite weight at p.
InfiniteOnlyAt(p) ==
    /\ regularization_matrix # NoReg
    /\ At2(regularization_matrix, p, p) = Inf
    /\ \A q \in 1..NCoefs : q # p => IsFinite(At2(regularization_matrix, q, q))

\* The least-squares problem with coefficient p removed (two coefficients).
ReducedFit(p, skipZero) ==
    LET q == 3 - p
    IN  probabilistic_least_squares(
            Mk2(NObs, 1, [r \in 1..NObs, c \in 1..1 |-> At2(design_matrix, r, q)]), y,
            Mk2(1, 1, [r \in 1..1, c \in 1..1 |-> At2(regularization_matrix, q, q)]), FALSE, skipZero)

\* C4 - Regularization hard-zero.  With one infinite diagonal weight, at
\* either position, the mean of that coefficient is exactly zero, the other
\* components and the residual variance are finite, and they are those of
\* the fit with that coefficient removed (whenever that fit exists and has
\* a finite residual variance).
C4_RegularizationHardZero ==
    \A p \in 1..2 :
      (Called /\ ~return_posterior_precision /\ p <= NCoefs /\ InfiniteOnlyAt(p)
         /\ (NCoefs = 2 =>
               /\ ReducedFit(p, FALSE).err = "none"
               /\ \A u \in 1..NUnits :
                     IsFinite(ReducedFit(p, FALSE).residual_variance.data[u])))
      => /\ Returned
         /\ \A u \in 1..NUnits :
              /\ UnitMean(u)[p] = Zero
              /\ \A q \in 1..NCoefs : IsFinite(UnitMean(u)[q])
              /\ IsFinite(UnitVariance(u))
              /\ NCoefs = 2 =>
                   /\ UnitMean(u)[3 - p] = ReducedFit(p, FALSE).mean.data[u]
                   /\ UnitVariance(u) = ReducedFit(p, FALSE).residual_variance.data[u]

\* C6 - The residual variance is a number >= 0: for a full-column-rank
\* design (also a square one), every returned residual variance is finite
\* and not negative.
C6_ResidualVarianceNonNegative ==
    (Returned /\ FullColumnRank(design_matrix))
    => \A u \in 1..NUnits : IsFinite(UnitVariance(u)) /\ QNonNeg(UnitVariance(u))

----------------------------------------------------------------------------
(* Sampler properties (specification SpecSamp).                            *)

SamplerCoefs == mean2d.shape[2]

SamplerUnits == mean2d.shape[1]

\* The linear transform the sampler applies to the draws of unit u: the
\* solve against the identity.
TransformOf(u) ==
    SampleTransform(Cholesky(Slice3(precision3d, u)).arr, Eye(SamplerCoefs), FALSE).arr

\* samples[u] - mean[u], coefficients x n_samples.
Centered(u) ==
    Mk2(SamplerCoefs, n_samples,
        [r \in 1..SamplerCoefs, c \in 1..n_samples |-> QSub(At3(samples, u, r, c), At2(mean2d, u, r))])

\* C1 - Sampler covariance.  For every unit sampled (n_samples >= 1),
\* samples - mean = T Z
\* for the transform T of the unit, and T T^t = precision^-1, that is
\* T T^t precision is the identity.
C1_SamplerCovariance ==
    (pc \in {"loop", "returned", "LinAlgError"} /\ n_samples >= 1)
    => \A u \in 1..i :
          LET T == TransformOf(u)
          IN  /\ Centered(u) = EinsumMatMul(T, zs[u])
              /\ EinsumMatMul(EinsumMatMul(T, Swapaxes(T)), Slice3(precision3d, u))
                   = Eye(SamplerCoefs)

\* C5 - Sampler output shape: coefficients x n_samples for a mean given as
\* one vector, batch x coefficients x n_samples for a mean given with a
\* batch axis (also a batch of one); no other axis is removed.  Stated for
\* the calls with n_samples >= 1.
C5_SamplerOutputShape ==
    (pc = "returned" /\ n_samples >= 1)
    => out.shape = (IF Len(mean_arg.shape) = 1
                    THEN <<mean_arg.shape[1], n_samples>>
                    ELSE <<mean_arg.shape[1], mean_arg.shape[2], n_samples>>)

\* C8 - Invalid sample count: a call with n_samples <= 0 fails with the
\* invalid-parameter error, returns nothing and draws nothing.
C8_InvalidSampleCount ==
    (n_samples <= 0 /\ pc \notin {"idle", "start"})
    => pc = "ValueError" /\ drawn = 0 /\ out = NoArr

\* C10 - Factor before draw: when the factorization of unit i fails, the
\* random source has been consumed for the units before i only.
C10_FactorBeforeDraw ==
    pc = "LinAlgError" => drawn = i * SamplerCoefs * n_samples

====
